---- MODULE Spec2Model ----
(***************************************************************************)
(* Model of conn_process.go: the response-stream processor of a            *)
(* connection (connect.firstBlock, connect.process, connect.handle,        *)
(* connect.cancel).                                                        *)
(*                                                                         *)
(* The connection's reader is a byte stream with a read offset.  A packet  *)
(* is a tag byte followed, for every tag that has a decoder, by a one-byte *)
(* payload.  Every read of the stream takes two steps (the offset is       *)
(* loaded, then the byte is returned and the offset stored), so that       *)
(* unsynchronised readers race the way a buffered reader lets them.        *)
(***************************************************************************)
EXTENDS Integers, Sequences, FiniteSets, TLC

(***************************************************************************)
(* Bounds of the model.                                                    *)
(***************************************************************************)
MaxPackets == 2
MaxCalls == 2

(***************************************************************************)
(* Wire values of the packet vocabulary (lib/proto).                       *)
(***************************************************************************)
ServerData == 1
ServerException == 2
ServerProgress == 3
ServerEndOfStream == 5
ServerProfileInfo == 6
ServerTotals == 7
ServerExtremes == 8
ServerLog == 10
ServerTableColumns == 11
ServerProfileEvents == 14
ClientCancel == 3

\* Tags whose packet carries a payload that a decoder of handle consumes.
DecodedTags ==
  {ServerData, ServerTotals, ServerExtremes, ServerException, ServerProfileInfo,
   ServerTableColumns, ServerProfileEvents, ServerLog, ServerProgress}

KnownTags == DecodedTags \cup {ServerEndOfStream}

\* Bytes outside the vocabulary that the server side of the model may write
\* (0 is the server's Hello and 4 its Pong: neither is handled here).
UnknownTags == {0, 4}

\* Payload bytes: a block's row count, an exception's code, an auxiliary value.
BlockRows == {0, 3}
ExceptionCodes == {60}
AuxValues == {9}

(***************************************************************************)
(* Input streams: every sequence of at most MaxPackets packets, and each   *)
(* of them cut one byte short (a payload that never arrives).              *)
(***************************************************************************)
Packets ==
  {<<t, r>> : t \in {ServerData, ServerTotals, ServerExtremes}, r \in BlockRows}
    \cup {<<ServerException, c>> : c \in ExceptionCodes}
    \cup {<<t, v>> : t \in {ServerProfileInfo, ServerTableColumns,
                            ServerProfileEvents, ServerLog, ServerProgress},
                     v \in AuxValues}
    \cup {<<ServerEndOfStream>>}
    \cup {<<u>> : u \in UnknownTags}

RECURSIVE Flatten(_)
Flatten(ps) == IF ps = <<>> THEN <<>> ELSE Head(ps) \o Flatten(Tail(ps))

PacketSeqs == UNION {[1..n -> Packets] : n \in 0..MaxPackets}

\* The five-packet sequence of the specification's worked example.
ExampleStream ==
  <<ServerProfileInfo, 9, ServerProgress, 9, ServerData, 3, ServerLog, 9,
    ServerEndOfStream>>

Streams ==
  {Flatten(ps) : ps \in PacketSeqs}
    \cup {SubSeq(Flatten(ps), 1, Len(Flatten(ps)) - 1) : ps \in PacketSeqs \ {<<>>}}
    \cup {ExampleStream}

\* The streams two concurrent callers drain: a block whose row count is the
\* value of a tag, an auxiliary packet, an exception, the end of the stream.
DrainPackets ==
  {<<ServerData, 3>>, <<ServerLog, 9>>, <<ServerException, 60>>,
   <<ServerEndOfStream>>}

DrainStreams ==
  {Flatten(ps) : ps \in UNION {[1..n -> DrainPackets] : n \in 1..MaxPackets}}

Callers == {1, 2}

CtxErrs == {"context.Canceled", "context.DeadlineExceeded"}

\* Callback tables: data is the one slot the code checks for nil.
AllCallbacks == {"data", "logs", "progress", "profileInfo", "profileEvents"}
CallbackTables == {AllCallbacks, AllCallbacks \ {"data"}}

VARIABLES
  stream,   \* the bytes the server wrote, in order
  pos,      \* c.reader: number of bytes consumed
  reads,    \* history: how many times each offset of the stream was consumed
  lock,     \* c.rwLock: 0 when free, else the caller holding it
  closed,   \* whether c.close() has run
  buffer,   \* c.buffer: bytes written and not yet flushed
  wire,     \* bytes flushed to the server
  pc,       \* each caller's position in its call
  entry,    \* each caller's entry point: "firstBlock", "process" or ""
  on,       \* each caller's callback table (the slots that are set)
  ctx,      \* each caller's context: "live" or its ctx.Err()
  packet,   \* each caller's local variable packet
  roff,     \* each caller's read in flight: the offset it loaded
  wErr,     \* cancel's local variable wErr
  callId,   \* the number of each caller's current call
  ncalls,   \* calls started so far
  hist      \* history: each caller's observable events, in order

vars ==
  <<stream, pos, reads, lock, closed, buffer, wire, pc, entry, on, ctx, packet, roff,
    wErr, callId, ncalls, hist>>

(***************************************************************************)
(* Errors and events.                                                      *)
(***************************************************************************)
\* An error value: its kind, the Op and the byte of an OpError, and what it
\* wraps ("" when it wraps nothing).
Err(kind, op, val) == [kind |-> kind, op |-> op, val |-> val, wraps |-> ""]

Nil == Err("nil", "", 0)
ioEOF == Err("io.EOF", "", 0)
ErrTransport == Err("transport", "", 0)
ErrClosed == Err("closed", "", 0)
ErrCtx(reason) == Err(reason, "", 0)
Exception(code) == Err("Exception", "", code)

\* &OpError{Op: "process", Err: fmt.Errorf("unexpected packet %d", packet)}
OpError(b) == Err("unexpected packet", "process", b)

\* An event of caller p's current call.  The reads of a tag, the write of
\* Cancel and the return carry the state of the call's context.
Ev(ev, p, what, off, val, err) ==
  [ev |-> ev, by |-> p, call |-> callId[p], what |-> what, off |-> off,
   val |-> val, err |-> err,
   ctx |-> IF ev \in {"PutUVarInt", "return"} \/ what = "tag" THEN ctx[p] ELSE ""]

debugf(p, msg) == Ev("debugf", p, msg, -1, -1, Nil)

(***************************************************************************)
(* The connection's collaborators.                                         *)
(***************************************************************************)
\* c.reader.ReadByte() completing at the offset the read loaded.
ReadByte(off) ==
  IF closed THEN [err |-> ErrClosed, b |-> -1]
  ELSE IF off >= Len(stream) THEN [err |-> ErrTransport, b |-> -1]
  ELSE [err |-> Nil, b |-> stream[off + 1]]

\* A read that completes at offset off consumes that byte and leaves the
\* reader behind it.
Consume(off) ==
  /\ pos' = off + 1
  /\ reads' = [reads EXCEPT ![off] = @ + 1]

\* A payload decoder: it consumes exactly the packet's one payload byte.
Decode(off) == ReadByte(off)

TypeOK ==
  /\ stream \in Streams
  /\ pos \in 0..Len(stream)
  /\ reads \in [0..(Len(stream) - 1) -> Nat]
  /\ lock \in {0} \cup Callers
  /\ closed \in BOOLEAN
  /\ ncalls \in 0..MaxCalls

Init ==
  /\ stream \in Streams
  /\ pos = 0
  /\ reads = [o \in 0..(Len(stream) - 1) |-> 0]
  /\ lock = 0
  /\ closed = FALSE
  /\ buffer = <<>>
  /\ wire = <<>>
  /\ pc = [p \in Callers |-> "idle"]
  /\ entry = [p \in Callers |-> ""]
  /\ on = [p \in Callers |-> {}]
  /\ ctx = [p \in Callers |-> "live"]
  /\ packet = [p \in Callers |-> -1]
  /\ roff = [p \in Callers |-> -1]
  /\ wErr = [p \in Callers |-> Nil]
  /\ callId = [p \in Callers |-> 0]
  /\ ncalls = 0
  /\ hist = [p \in Callers |-> <<>>]

(***************************************************************************)
(* Decisions of the code, one operator per switch or condition.            *)
(***************************************************************************)
\* A poll that never sees the context done.
ctxIsDone_Never(c) == FALSE

\* A poll that takes every context for done.
ctxIsDone_Always(c) == TRUE

\* select { case <-ctx.Done(): ...; default: }
ctxIsDone(c) == c # "live"

\* An entry point that returns cancel's error when cancel failed.
cancelled_CancelErrFirst(c, cancelErr) ==
  IF cancelErr # Nil THEN cancelErr ELSE ErrCtx(c)

\* What firstBlock and process return once cancel() has run: ctx.Err();
\* the value cancel() returned is discarded.
cancelled(c, cancelErr) == ErrCtx(c)

\* A firstBlock without its Data case: the packet goes to handle.
firstBlockCase_NoData(b) == IF b = ServerEndOfStream THEN "EndOfStream" ELSE "handle"

\* A firstBlock without its EndOfStream case: the tag goes to handle.
firstBlockCase_NoEOS(b) == IF b = ServerData THEN "readData" ELSE "handle"

\* firstBlock's switch on the tag it read.
firstBlockCase(b) ==
  IF b = ServerData THEN "readData"
  ELSE IF b = ServerEndOfStream THEN "EndOfStream"
  ELSE "handle"

\* A process without its EndOfStream case.
processCase_NoEOS(b) == "handle"

\* process's switch on the tag it read.
processCase(b) == IF b = ServerEndOfStream THEN "EndOfStream" ELSE "handle"

\* A handle that takes an Exception packet for a Log packet.
handleCase_ExceptionAsLog(b) ==
  IF b \in {ServerData, ServerTotals, ServerExtremes} THEN "block"
  ELSE IF b = ServerProfileInfo THEN "profileInfo"
  ELSE IF b = ServerTableColumns THEN "tableColumns"
  ELSE IF b = ServerProfileEvents THEN "profileEvents"
  ELSE IF b \in {ServerLog, ServerException} THEN "logs"
  ELSE IF b = ServerProgress THEN "progress"
  ELSE "default"

\* A handle that decodes and drops what it does not know.
handleCase_SkipUnknown(b) ==
  IF b \in {ServerData, ServerTotals, ServerExtremes} THEN "block"
  ELSE IF b = ServerException THEN "exception"
  ELSE IF b = ServerProfileInfo THEN "profileInfo"
  ELSE IF b = ServerProfileEvents THEN "profileEvents"
  ELSE IF b = ServerLog THEN "logs"
  ELSE IF b = ServerProgress THEN "progress"
  ELSE "tableColumns"

\* handle's switch on the tag it is given.
handleCase(b) ==
  IF b \in {ServerData, ServerTotals, ServerExtremes} THEN "block"
  ELSE IF b = ServerException THEN "exception"
  ELSE IF b = ServerProfileInfo THEN "profileInfo"
  ELSE IF b = ServerTableColumns THEN "tableColumns"
  ELSE IF b = ServerProfileEvents THEN "profileEvents"
  ELSE IF b = ServerLog THEN "logs"
  ELSE IF b = ServerProgress THEN "progress"
  ELSE "default"

\* A lock that excludes nobody.
rwLockFree_NoLock(l) == TRUE

\* c.rwLock.Lock() returns once nobody holds the lock.
rwLockFree(l) == l = 0

\* A handle that delivers every block, whatever its row count.
deliversData_AnyRows(rows, slots) == "data" \in slots

\* A handle whose condition is an "or": a block with rows or a callback.
deliversData_RowsOrSlot(rows, slots) == rows # 0 \/ "data" \in slots

\* if block.Rows() != 0 && on.data != nil
deliversData(rows, slots) == rows # 0 /\ "data" \in slots

\* The error handle's default branch returns for tag b.
unexpectedPacket(b) == OpError(b)

\* A cancel that returns early when the flush failed.
closesAfterFlush_OnlyOnSuccess(w) == w = Nil

\* cancel calls c.close() whatever the flush returned.
closesAfterFlush(w) == TRUE

\* A cancel that reports the flush error first.
cancelResult_FlushFirst(w, cErr) == IF w # Nil THEN w ELSE cErr

\* cancel's result from the flush error and the close error.
cancelResult(w, cErr) == IF cErr # Nil THEN cErr ELSE w

\* A loop that polls the context once more before it hands the tag on.
dispatch_PollFirst(c) == IF c # "live" THEN "cancel" ELSE "handle_Lock"

\* A loop that goes on to its next iteration without handling the packet.
dispatch_ReadOn(c) == "select"

\* Where a loop goes with a tag that does not end it: c.handle(ctx, packet,
\* on), whatever the state of the context.
dispatch(c) == "handle_Lock"

\* A process that keeps the lock of its tag read while it calls handle.
processUnlocked_Held(l) == l

\* The lock after process's c.rwLock.Unlock(), which follows its ReadByte
\* on every path.
processUnlocked(l) == 0

\* A handle that unlocks at the end of its body only, not on the early
\* returns of its error paths.
deferUnlock_NotOnError(l, e) == IF e # Nil THEN l ELSE 0

\* The lock after handle returns e: defer c.rwLock.Unlock() runs on every
\* return.
deferUnlock(l, e) == 0

\* The events of one handled packet after its payload byte v was decoded at
\* offset off: the debug line and the callback of its branch.
handleEvents(p, br, off, v) ==
  IF br = "block"
    THEN IF deliversData(v, on[p]) THEN <<Ev("callback", p, "data", off, v, Nil)>>
         ELSE <<>>
  ELSE IF br = "profileInfo"
    THEN <<debugf(p, "[profile info]"), Ev("callback", p, "profileInfo", off, v, Nil)>>
  ELSE IF br = "tableColumns" THEN <<debugf(p, "[table columns]")>>
  ELSE IF br = "profileEvents"
    THEN <<Ev("callback", p, "profileEvents", off, v, Nil)>>
  ELSE IF br = "logs" THEN <<Ev("callback", p, "logs", off, v, Nil)>>
  ELSE IF br = "progress"
    THEN <<debugf(p, "[progress]"), Ev("callback", p, "progress", off, v, Nil)>>
  ELSE <<>>

(***************************************************************************)
(* Steps shared by the actions.                                            *)
(***************************************************************************)
\* The events caller p adds to its history.
Record(p, events) == hist' = [hist EXCEPT ![p] = @ \o events]

\* The call of caller p returns (block, e); a nil block is (-1, -1).
Return(p, events, boff, rows, e) ==
  /\ Record(p, events \o <<Ev("return", p, entry[p], boff, rows, e)>>)
  /\ pc' = [pc EXCEPT ![p] = "idle"]
  /\ entry' = [entry EXCEPT ![p] = ""]
  /\ on' = [on EXCEPT ![p] = {}]
  /\ ctx' = [ctx EXCEPT ![p] = "live"]
  /\ packet' = [packet EXCEPT ![p] = -1]
  /\ roff' = [roff EXCEPT ![p] = -1]
  /\ wErr' = [wErr EXCEPT ![p] = Nil]

\* Caller p moves on inside its call.
Goto(p, events, label, pkt, off) ==
  /\ Record(p, events)
  /\ pc' = [pc EXCEPT ![p] = label]
  /\ packet' = [packet EXCEPT ![p] = pkt]
  /\ roff' = [roff EXCEPT ![p] = off]
  /\ UNCHANGED <<entry, on, ctx, wErr>>

\* The history keeps every event of a caller's current call; of its earlier
\* calls it keeps that they wrote Cancel and which block they returned.
Compact(h) ==
  LET kept == SelectSeq(h, LAMBDA e : e.ev \in {"PutUVarInt", "return"})
  IN [k \in 1..Len(kept) |-> [kept[k] EXCEPT !.ctx = "", !.err = Nil]]

Call(p, name, c, slots) ==
  /\ pc[p] = "idle"
  /\ ncalls < MaxCalls
  /\ ncalls' = ncalls + 1
  /\ callId' = [callId EXCEPT ![p] = ncalls + 1]
  /\ entry' = [entry EXCEPT ![p] = name]
  /\ on' = [on EXCEPT ![p] = slots]
  /\ ctx' = [ctx EXCEPT ![p] = c]
  /\ pc' = [pc EXCEPT ![p] = "select"]
  /\ hist' = [hist EXCEPT ![p] =
                Append(Compact(@),
                       [ev |-> "call", by |-> p, call |-> ncalls + 1,
                        what |-> name, off |-> pos,
                        val |-> IF "data" \in slots THEN 1 ELSE 0,
                        err |-> IF closed THEN ErrClosed ELSE Nil,
                        ctx |-> c])]
  /\ UNCHANGED <<stream, pos, reads, lock, closed, buffer, wire, packet, roff, wErr>>

(***************************************************************************)
(* The caller's side: starting a call, cancelling its context.             *)
(***************************************************************************)
firstBlockCall(p) ==
  \E c \in {"live"} \cup CtxErrs, slots \in CallbackTables :
    Call(p, "firstBlock", c, slots)

processCall(p) ==
  \E c \in {"live"} \cup CtxErrs, slots \in CallbackTables :
    Call(p, "process", c, slots)

\* process is called to drain, with every callback set and a context that is
\* cancelled, if at all, after the call.
drainCall(p) == Call(p, "process", "live", AllCallbacks)

\* firstBlock is called while another call may be draining the connection:
\* the call site the contract of firstBlock rules out.
firstCall(p) == Call(p, "firstBlock", "live", AllCallbacks)

\* The context of a call in progress is cancelled or reaches its deadline.
ctxDone(p) ==
  /\ pc[p] # "idle"
  /\ ctx[p] = "live"
  /\ \E r \in CtxErrs : ctx' = [ctx EXCEPT ![p] = r]
  /\ UNCHANGED <<stream, pos, reads, lock, closed, buffer, wire, pc, entry, on, packet,
                 roff, wErr, callId, ncalls, hist>>

(***************************************************************************)
(* The top of both loops: the non-blocking poll of ctx.Done().             *)
(***************************************************************************)
select(p) ==
  /\ pc[p] = "select"
  /\ IF ctxIsDone(ctx[p])
       THEN Goto(p, <<>>, "cancel", packet[p], roff[p])
       ELSE Goto(p, <<>>, IF entry[p] = "firstBlock" THEN "firstBlock_ReadByte"
                          ELSE "process_Lock", packet[p], roff[p])
  /\ UNCHANGED <<stream, pos, reads, lock, closed, buffer, wire, callId, ncalls>>

(***************************************************************************)
(* firstBlock.                                                             *)
(***************************************************************************)
\* c.reader.ReadByte() begins, with no lock held.
firstBlockReadByte(p) ==
  /\ pc[p] = "firstBlock_ReadByte"
  /\ Goto(p, <<>>, "firstBlock_switch", packet[p], pos)
  /\ UNCHANGED <<stream, pos, reads, lock, closed, buffer, wire, callId, ncalls>>

\* The read ends; firstBlock returns its error or switches on the tag.
firstBlockSwitch(p) ==
  /\ pc[p] = "firstBlock_switch"
  /\ LET r == ReadByte(roff[p])
         rd == Ev("read", p, "tag", roff[p], r.b, Nil)
     IN IF r.err # Nil
          THEN /\ Return(p, <<>>, -1, -1, r.err)
               /\ UNCHANGED <<pos, reads>>
          ELSE /\ Consume(roff[p])
               /\ IF firstBlockCase(r.b) = "readData"
                    THEN Goto(p, <<rd>>, "firstBlock_readData", r.b, -1)
                  ELSE IF firstBlockCase(r.b) = "EndOfStream"
                    THEN Return(p, <<rd, debugf(p, "[end of stream]")>>, -1, -1, ioEOF)
                  ELSE Goto(p, <<rd>>, dispatch(ctx[p]), r.b, -1)
  /\ UNCHANGED <<stream, lock, closed, buffer, wire, callId, ncalls>>

\* c.readData(ctx, packet, true) begins, with no lock held.
firstBlockReadData(p) ==
  /\ pc[p] = "firstBlock_readData"
  /\ Goto(p, <<>>, "firstBlock_return", packet[p], pos)
  /\ UNCHANGED <<stream, pos, reads, lock, closed, buffer, wire, callId, ncalls>>

\* readData ends and firstBlock returns what it returned.
firstBlockReturn(p) ==
  /\ pc[p] = "firstBlock_return"
  /\ LET d == Decode(roff[p])
     IN IF d.err # Nil
          THEN /\ Return(p, <<>>, -1, -1, d.err)
               /\ UNCHANGED <<pos, reads>>
          ELSE /\ Consume(roff[p])
               /\ Return(p, <<Ev("read", p, "payload", roff[p], d.b, Nil)>>,
                         roff[p], d.b, Nil)
  /\ UNCHANGED <<stream, lock, closed, buffer, wire, callId, ncalls>>

(***************************************************************************)
(* process.                                                                *)
(***************************************************************************)
\* c.rwLock.Lock(); c.reader.ReadByte() begins.
processLock(p) ==
  /\ pc[p] = "process_Lock"
  /\ rwLockFree(lock)
  /\ lock' = p
  /\ Goto(p, <<>>, "process_Unlock", packet[p], pos)
  /\ UNCHANGED <<stream, pos, reads, closed, buffer, wire, callId, ncalls>>

\* The read ends; c.rwLock.Unlock(); process returns or goes on to handle.
processUnlock(p) ==
  /\ pc[p] = "process_Unlock"
  /\ lock' = processUnlocked(lock)
  /\ LET r == ReadByte(roff[p])
         rd == Ev("read", p, "tag", roff[p], r.b, Nil)
     IN IF r.err # Nil
          THEN /\ Return(p, <<>>, -1, -1, r.err)
               /\ UNCHANGED <<pos, reads>>
          ELSE /\ Consume(roff[p])
               /\ IF processCase(r.b) = "EndOfStream"
                    THEN Return(p, <<rd, debugf(p, "[end of stream]")>>, -1, -1, Nil)
                    ELSE Goto(p, <<rd>>, dispatch(ctx[p]), r.b, -1)
  /\ UNCHANGED <<stream, closed, buffer, wire, callId, ncalls>>

(***************************************************************************)
(* handle.                                                                 *)
(***************************************************************************)
\* c.rwLock.Lock(); the branch's decoder begins to read.  The default branch
\* has no decoder and reads nothing.
handleLock(p) ==
  /\ pc[p] = "handle_Lock"
  /\ rwLockFree(lock)
  /\ lock' = p
  /\ Goto(p, <<>>, "handle_switch", packet[p],
          IF handleCase(packet[p]) = "default" THEN -1 ELSE pos)
  /\ UNCHANGED <<stream, pos, reads, closed, buffer, wire, callId, ncalls>>

\* The switch of handle, its callback, and the deferred c.rwLock.Unlock().
handle(p) ==
  /\ pc[p] = "handle_switch"
  /\ LET br == handleCase(packet[p])
         d == Decode(roff[p])
         rd == Ev("read", p, "payload", roff[p], d.b, Nil)
         top == "select"
         e == IF br = "default" THEN unexpectedPacket(packet[p])
              ELSE IF d.err # Nil THEN d.err
              ELSE IF br = "exception" THEN Exception(d.b)
              ELSE Nil
     IN /\ lock' = deferUnlock(lock, e)
        /\ IF br = "default" \/ d.err # Nil
             THEN /\ Return(p, <<>>, -1, -1, e)
                  /\ UNCHANGED <<pos, reads>>
             ELSE /\ Consume(roff[p])
                  /\ IF br = "exception"
                       THEN Return(p, <<rd>>, -1, -1, e)
                       ELSE Goto(p, <<rd>> \o handleEvents(p, br, roff[p], d.b),
                                 top, -1, -1)
  /\ UNCHANGED <<stream, closed, buffer, wire, callId, ncalls>>

(***************************************************************************)
(* cancel.                                                                 *)
(***************************************************************************)
\* c.debugf("[cancel]"); c.buffer.PutUVarInt(proto.ClientCancel): the tag is
\* appended to the connection's buffer, with no lock held.
cancelPut(p) ==
  /\ pc[p] = "cancel"
  /\ buffer' = Append(buffer, ClientCancel)
  /\ Record(p, <<debugf(p, "[cancel]"),
                  Ev("PutUVarInt", p, "Cancel", -1, ClientCancel, Nil)>>)
  /\ pc' = [pc EXCEPT ![p] = "cancel_flush"]
  /\ UNCHANGED <<stream, pos, reads, lock, closed, wire, entry, on, ctx, packet, roff,
                 wErr, callId, ncalls>>

\* wErr := c.flush(): a flush that succeeds sends whatever the buffer holds,
\* a flush that fails leaves it there.
cancelFlush(p) ==
  /\ pc[p] = "cancel_flush"
  /\ \E ok \in BOOLEAN :
       LET w == IF ok /\ ~closed THEN Nil ELSE Err("flush", "", 0)
       IN /\ buffer' = IF w = Nil THEN <<>> ELSE buffer
          /\ wire' = IF w = Nil THEN wire \o buffer ELSE wire
          /\ wErr' = [wErr EXCEPT ![p] = w]
          /\ Record(p, <<Ev("flush", p, "", -1, -1, w)>>)
  /\ pc' = [pc EXCEPT ![p] = "cancel_close"]
  /\ UNCHANGED <<stream, pos, reads, lock, closed, entry, on, ctx, packet, roff, callId,
                 ncalls>>

\* c.close(), cancel's return, and the caller's return of ctx.Err().
cancelClose(p) ==
  /\ pc[p] = "cancel_close"
  /\ closed' = (closed \/ closesAfterFlush(wErr[p]))
  /\ \E ok \in BOOLEAN :
       LET cErr == IF ok THEN Nil ELSE Err("close", "", 0)
           res == cancelResult(wErr[p], cErr)
       IN Return(p, <<Ev("close", p, "", -1, -1, cErr),
                      Ev("cancel", p, "", -1, -1, res)>>,
                 -1, -1, cancelled(ctx[p], res))
  /\ UNCHANGED <<stream, pos, reads, lock, buffer, wire, callId, ncalls>>

(***************************************************************************)
(* Specifications.                                                         *)
(***************************************************************************)
AllIdle == \A q \in Callers : pc[q] = "idle"

\* One caller, one call after the other: Entry A, then Entry B to drain.
Next ==
  \/ AllIdle /\ firstBlockCall(1)
  \/ AllIdle /\ processCall(1)
  \/ ctxDone(1)
  \/ select(1)
  \/ firstBlockReadByte(1)
  \/ firstBlockSwitch(1)
  \/ firstBlockReadData(1)
  \/ firstBlockReturn(1)
  \/ processLock(1)
  \/ processUnlock(1)
  \/ handleLock(1)
  \/ handle(1)
  \/ cancelPut(1)
  \/ cancelFlush(1)
  \/ cancelClose(1)

Spec == Init /\ [][Next]_vars

\* Two callers that drain the connection at the same time: process calls
\* only, each with its own context, so that one call's cancel runs while the
\* other call reads.
NextDrain ==
  \E p \in Callers :
    \/ drainCall(p)
    \/ ctxDone(p)
    \/ select(p)
    \/ processLock(p)
    \/ processUnlock(p)
    \/ handleLock(p)
    \/ handle(p)
    \/ cancelPut(p)
    \/ cancelFlush(p)
    \/ cancelClose(p)

InitDrain == Init /\ stream \in DrainStreams

SpecDrain == InitDrain /\ [][NextDrain]_vars

\* Two callers of either entry point at the same time, firstBlock among
\* them.
NextMixed ==
  \E p \in Callers :
    \/ firstCall(p)
    \/ drainCall(p)
    \/ ctxDone(p)
    \/ select(p)
    \/ firstBlockReadByte(p)
    \/ firstBlockSwitch(p)
    \/ firstBlockReadData(p)
    \/ firstBlockReturn(p)
    \/ processLock(p)
    \/ processUnlock(p)
    \/ handleLock(p)
    \/ handle(p)
    \/ cancelPut(p)
    \/ cancelFlush(p)
    \/ cancelClose(p)

SpecMixed == InitDrain /\ [][NextMixed]_vars

\* The steps of caller p's call, which its goroutine takes when it can.
Step(p) ==
  \/ select(p)
  \/ firstBlockReadByte(p)
  \/ firstBlockSwitch(p)
  \/ firstBlockReadData(p)
  \/ firstBlockReturn(p)
  \/ processLock(p)
  \/ processUnlock(p)
  \/ handleLock(p)
  \/ handle(p)
  \/ cancelPut(p)
  \/ cancelFlush(p)
  \/ cancelClose(p)

\* The callers keep firstBlock's contract: firstBlock is called while no
\* other call runs, and the calls that drain run at the same time.
NextContract ==
  \E p \in Callers :
    \/ AllIdle /\ firstCall(p)
    \/ (\A q \in Callers : entry[q] # "firstBlock") /\ drainCall(p)
    \/ ctxDone(p)
    \/ Step(p)

\* The callers under the scheduler: a goroutine that can take a step takes
\* it in the end.
SpecFair ==
  /\ InitDrain
  /\ [][NextContract]_vars
  /\ \A p \in Callers : WF_vars(Step(p))

(***************************************************************************)
(* Reading the history.                                                    *)
(***************************************************************************)
\* The events of all callers, caller after caller; the events of one call
\* are in the order in which they happened.
log == hist[1] \o hist[2]

Events(kind) == {i \in 1..Len(log) : log[i].ev = kind}

\* The calls whose whole history is in the log: i is the call's first event.
Started == Events("call")

\* The return of the call that started at log[i], 0 while it is in progress.
ReturnOf(i) ==
  LET rs == {j \in Events("return") : log[j].call = log[i].call}
  IN IF rs = {} THEN 0 ELSE CHOOSE j \in rs : TRUE

\* The events of the call that started at log[i], of one kind.
EventsOf(i, kind) == {j \in Events(kind) : log[j].call = log[i].call}

\* The call's context was live when it started and when it returned.
NeverCancelled(i) == log[i].ctx = "live" /\ log[ReturnOf(i)].ctx = "live"

\* The connection was open when the call started.
StartedOpen(i) == log[i].err = Nil

\* The tags of the packets that lie in the stream from byte offset off on.
RECURSIVE PacketTags(_)
PacketTags(off) ==
  IF off >= Len(stream) THEN <<>>
  ELSE LET t == stream[off + 1]
       IN <<t>> \o PacketTags(IF t \in DecodedTags THEN off + 2 ELSE off + 1)

\* Tags that handle decodes and dispatches without ending the call.
DispatchedTags == DecodedTags \ {ServerException}

(***************************************************************************)
(* C1 as stated: for every packet sequence that ends in EndOfStream and    *)
(* has no Data packet before it, firstBlock with a never-cancelled context *)
(* returns (nil, io.EOF).  It fails: an Exception packet or an unknown tag *)
(* before the EndOfStream ends the call with that error.                   *)
(***************************************************************************)
C1_AsStated ==
  \A i \in Started :
    LET tags == PacketTags(log[i].off)
    IN (/\ log[i].what = "firstBlock"
        /\ ReturnOf(i) # 0
        /\ NeverCancelled(i)
        /\ StartedOpen(i)
        /\ tags # <<>>
        /\ tags[Len(tags)] = ServerEndOfStream
        /\ \A k \in 1..(Len(tags) - 1) : tags[k] # ServerData)
       => /\ log[ReturnOf(i)].err = ioEOF
          /\ log[ReturnOf(i)].val = -1

(***************************************************************************)
(* C1 amended: for every packet sequence that ends in EndOfStream and has  *)
(* before it no Data packet, no Exception packet and no tag outside the    *)
(* vocabulary, firstBlock with a never-cancelled context on an open        *)
(* connection returns the nil block and io.EOF.                            *)
(***************************************************************************)
C1_NoDataIsEOF ==
  \A i \in Started :
    LET tags == PacketTags(log[i].off)
    IN (/\ log[i].what = "firstBlock"
        /\ ReturnOf(i) # 0
        /\ NeverCancelled(i)
        /\ StartedOpen(i)
        /\ tags # <<>>
        /\ tags[Len(tags)] = ServerEndOfStream
        /\ \A k \in 1..(Len(tags) - 1) :
             tags[k] \in (KnownTags \ {ServerData, ServerException}))
       => /\ log[ReturnOf(i)].err = ioEOF
          /\ log[ReturnOf(i)].val = -1

\* firstBlock has returned io.EOF after it dispatched an auxiliary packet.
C1_Witness ==
  \E i \in Started :
    /\ log[i].what = "firstBlock"
    /\ ReturnOf(i) # 0
    /\ NeverCancelled(i)
    /\ log[ReturnOf(i)].err = ioEOF
    /\ EventsOf(i, "callback") # {}
    /\ PacketTags(log[i].off)[Len(PacketTags(log[i].off))] = ServerEndOfStream

(***************************************************************************)
(* More of the history: what one call read and which callbacks it made.    *)
(***************************************************************************)
\* The events of the call that started at log[i], in order.
CallLog(i) == SelectSeq(log, LAMBDA e : e.call = log[i].call)

\* The tags the call read, in order.
TagsRead(i) ==
  LET rd == SelectSeq(CallLog(i), LAMBDA e : e.ev = "read" /\ e.what = "tag")
  IN [k \in 1..Len(rd) |-> rd[k].val]

\* The callbacks the call made, in order: <<slot, offset of the payload>>.
Callbacks(i) ==
  LET cb == SelectSeq(CallLog(i), LAMBDA e : e.ev = "callback")
  IN [k \in 1..Len(cb) |-> <<cb[k].what, cb[k].off>>]

\* The offsets the call consumed, in order.
OffsetsRead(i) ==
  LET rd == SelectSeq(CallLog(i), LAMBDA e : e.ev = "read")
  IN [k \in 1..Len(rd) |-> rd[k].off]

\* The callback slot of an auxiliary packet.
AuxTags == {ServerProfileInfo, ServerProfileEvents, ServerLog, ServerProgress}

AuxCallback(t) ==
  IF t = ServerProfileInfo THEN "profileInfo"
  ELSE IF t = ServerProfileEvents THEN "profileEvents"
  ELSE IF t = ServerLog THEN "logs"
  ELSE "progress"

\* The first k tags of the packets from offset off on.
TagsPrefix(off, k) == SubSeq(PacketTags(off), 1, k)

\* The index of the first tag t among the packets from offset off on, else 0.
FirstTag(off, t) ==
  LET tags == PacketTags(off)
      at == {k \in 1..Len(tags) : tags[k] = t}
  IN IF at = {} THEN 0 ELSE CHOOSE k \in at : \A m \in at : k <= m

\* Every auxiliary packet the call read made its callback exactly once, after
\* its tag was read and before the call returned, and the call made no other
\* callback of an auxiliary slot.
AuxOncePerPacket(i) ==
  /\ \A j \in EventsOf(i, "read") :
       (log[j].what = "tag" /\ log[j].val \in AuxTags)
         => /\ Cardinality({k \in EventsOf(i, "callback") :
                              /\ log[k].what = AuxCallback(log[j].val)
                              /\ log[k].off = log[j].off + 1}) = 1
            /\ \A k \in EventsOf(i, "callback") :
                 log[k].off = log[j].off + 1
                   => j < k /\ (ReturnOf(i) # 0 => k < ReturnOf(i))
  /\ Cardinality({k \in EventsOf(i, "callback") : log[k].what # "data"})
       = Cardinality({j \in EventsOf(i, "read") :
                        log[j].what = "tag" /\ log[j].val \in AuxTags})

\* The last return before log[i] was firstBlock's, with a block.
AfterFirstBlock(i) ==
  /\ i > 1
  /\ log[i - 1].ev = "return"
  /\ log[i - 1].what = "firstBlock"
  /\ log[i - 1].val # -1

(***************************************************************************)
(* C2: firstBlock consumes the stream up to and including the first Data   *)
(* packet and no further.  When it returns a block, the tags it read are   *)
(* the packets from its start up to the first Data packet, every auxiliary *)
(* packet among them has made its callback exactly once before the return, *)
(* and the reader stands right behind the block.  A process call that      *)
(* follows starts there, and when the packets left up to the first         *)
(* EndOfStream are ones handle dispatches, it reads exactly those, makes   *)
(* each auxiliary callback once and returns nil.  On the sequence          *)
(* [ProfileInfo, Progress, Data(rows=3), Log, EndOfStream]: firstBlock     *)
(* returns the rows=3 block after profileInfo and progress, once each, and *)
(* the process call that follows makes logs once and returns nil.          *)
(***************************************************************************)
C2_FirstBlockStopsAtData ==
  \A i \in Started : ReturnOf(i) # 0 =>
    LET r == log[ReturnOf(i)]
        d == FirstTag(log[i].off, ServerData)
        e == FirstTag(log[i].off, ServerEndOfStream)
    IN /\ (log[i].what = "firstBlock" /\ r.val # -1) =>
            /\ r.err = Nil
            /\ d # 0
            /\ TagsRead(i) = TagsPrefix(log[i].off, d)
            /\ OffsetsRead(i) = [k \in 1..(r.off - log[i].off + 1) |->
                                   log[i].off + k - 1]
            /\ stream[r.off] = ServerData
            /\ r.val = stream[r.off + 1]
            /\ AuxOncePerPacket(i)
            /\ (ReturnOf(i) = Len(log) => pos = r.off + 1)
       /\ (log[i].what = "process" /\ AfterFirstBlock(i)) =>
            log[i].off = log[i - 1].off + 1
       /\ (/\ log[i].what = "process"
           /\ NeverCancelled(i)
           /\ StartedOpen(i)
           /\ e # 0
           /\ \A k \in 1..(e - 1) : PacketTags(log[i].off)[k] \in DispatchedTags)
          => /\ r.err = Nil
             /\ TagsRead(i) = TagsPrefix(log[i].off, e)
             /\ AuxOncePerPacket(i)
       /\ (/\ stream = ExampleStream
           /\ log[i].off = 0
           /\ log[i].what = "firstBlock"
           /\ NeverCancelled(i)
           /\ StartedOpen(i))
          => /\ r.err = Nil /\ r.val = 3 /\ r.off = 5
             /\ Callbacks(i) = <<<<"profileInfo", 1>>, <<"progress", 3>>>>
       /\ (/\ stream = ExampleStream
           /\ log[i].what = "process"
           /\ AfterFirstBlock(i)
           /\ NeverCancelled(i)
           /\ StartedOpen(i))
          => /\ r.err = Nil
             /\ Callbacks(i) = <<<<"logs", 7>>>>

\* On the example sequence, process has returned nil after firstBlock
\* returned the rows=3 block.
C2_Witness ==
  \E i \in Started :
    /\ stream = ExampleStream
    /\ log[i].what = "process"
    /\ AfterFirstBlock(i)
    /\ log[i - 1].val = 3
    /\ ReturnOf(i) # 0
    /\ log[ReturnOf(i)].err = Nil
    /\ Callbacks(i) = <<<<"logs", 7>>>>

(***************************************************************************)
(* C3: process returns nil if and only if the tag it read last is          *)
(* EndOfStream.  An EndOfStream tag ends the call at once with nil and     *)
(* never reaches handle; every other return carries a non-nil error.       *)
(***************************************************************************)
C3_NilIffEndOfStream ==
  /\ \A i \in Started : log[i].what = "process" =>
       LET tags == TagsRead(i)
           atEOS == tags # <<>> /\ tags[Len(tags)] = ServerEndOfStream
       IN /\ \A k \in 1..(Len(tags) - 1) : tags[k] # ServerEndOfStream
          /\ atEOS => ReturnOf(i) # 0
          /\ ReturnOf(i) # 0 =>
               /\ (log[ReturnOf(i)].err = Nil) <=> atEOS
               /\ log[ReturnOf(i)].val = -1
  /\ \A p \in Callers :
       (entry[p] = "process" /\ pc[p] \in {"handle_Lock", "handle_switch"})
         => packet[p] # ServerEndOfStream

\* process has returned nil at EndOfStream after it made a callback.
C3_Witness ==
  \E i \in Started :
    /\ log[i].what = "process"
    /\ ReturnOf(i) # 0
    /\ log[ReturnOf(i)].err = Nil
    /\ EventsOf(i, "callback") # {}

(***************************************************************************)
(* The block packets a call decoded: j is the read of the payload, and the *)
(* tag before it was read by the same call.                                *)
(***************************************************************************)
BlockTags == {ServerData, ServerTotals, ServerExtremes}

BlockDecodes ==
  {j \in Events("read") :
     /\ log[j].what = "payload"
     /\ \E t \in Events("read") :
          /\ log[t].call = log[j].call
          /\ log[t].what = "tag"
          /\ log[t].off = log[j].off - 1
          /\ log[t].val \in BlockTags
          /\ t < j
          /\ \A m \in (t + 1)..(j - 1) : log[m].call # log[j].call}

\* The tag of the block decoded at log[j].
TagOf(j) == stream[log[j].off]

\* The call event of the call that log[j] belongs to.
CallOf(j) == CHOOSE i \in Started : log[i].call = log[j].call

\* The data callbacks made with the block decoded at log[j].
DataCallbacks(j) ==
  {k \in Events("callback") :
     /\ log[k].what = "data"
     /\ log[k].call = log[j].call
     /\ log[k].off = log[j].off
     /\ log[k].val = log[j].val}

\* The block was decoded by handle, not by firstBlock's own Data case.
DecodedByHandle(j) ==
  ~(log[CallOf(j)].what = "firstBlock" /\ TagOf(j) = ServerData)

(***************************************************************************)
(* C4 as stated: every Data, Totals or Extremes packet decoded to a        *)
(* zero-row block never reaches the data callback, and every one decoded   *)
(* to a block with rows makes the data callback exactly once.  It fails:   *)
(* the Data packet firstBlock reads is returned, not handed to the         *)
(* callback, and no callback is made when the data slot is not set.        *)
(***************************************************************************)
C4_AsStated ==
  \A j \in BlockDecodes :
    /\ log[j].val = 0 => DataCallbacks(j) = {}
    /\ log[j].val > 0 => Cardinality(DataCallbacks(j)) = 1

(***************************************************************************)
(* C4 amended: every Data, Totals or Extremes packet decoded to a zero-row *)
(* block never reaches the data callback; every such packet that handle    *)
(* decodes to a block with rows, with the data callback set, makes the     *)
(* data callback exactly once with that block; the Data packet that        *)
(* firstBlock reads is returned to the caller and makes no callback, and   *)
(* so does a block when the data slot is not set.                          *)
(***************************************************************************)
C4_DataCallback ==
  /\ \A j \in BlockDecodes :
       LET set == log[CallOf(j)].val = 1
       IN /\ log[j].val = 0 => DataCallbacks(j) = {}
          /\ (log[j].val > 0 /\ DecodedByHandle(j) /\ set)
               => Cardinality(DataCallbacks(j)) = 1
          /\ (~DecodedByHandle(j) \/ ~set) => DataCallbacks(j) = {}
          /\ ~DecodedByHandle(j) =>
               /\ ReturnOf(CallOf(j)) = j + 1
               /\ log[j + 1].off = log[j].off
               /\ log[j + 1].val = log[j].val
  /\ \A k \in Events("callback") :
       log[k].what = "data" => \E j \in BlockDecodes : k \in DataCallbacks(j)

\* One call has decoded a zero-row block and delivered a block with rows.
C4_Witness ==
  \E j, z \in BlockDecodes :
    /\ log[j].call = log[z].call
    /\ log[z].val = 0
    /\ log[j].val > 0
    /\ Cardinality(DataCallbacks(j)) = 1

\* The decodes of an exception: j is the read of the payload, right after the
\* same call's read of the Exception tag.
ExceptionDecodes ==
  {j \in Events("read") :
     /\ log[j].what = "payload"
     /\ j > 1
     /\ log[j - 1].ev = "read"
     /\ log[j - 1].call = log[j].call
     /\ log[j - 1].what = "tag"
     /\ log[j - 1].val = ServerException}

(***************************************************************************)
(* C5: when a call has read an Exception tag and decoded its payload, the  *)
(* call has returned that exception as its error, it made no callback for  *)
(* the packet, and it read nothing behind the payload: the reader stands   *)
(* right behind the exception.                                             *)
(***************************************************************************)
C5_ExceptionEndsCall ==
  \A j \in ExceptionDecodes :
    LET i == CallOf(j)
    IN /\ ReturnOf(i) = j + 1
       /\ log[j + 1].err = Exception(log[j].val)
       /\ log[j + 1].val = -1
       /\ \A k \in EventsOf(i, "callback") : k < j - 1
       /\ \A k \in EventsOf(i, "read") : k <= j
       /\ (Len(log) = j + 1 => pos = log[j].off + 1)

\* An Exception has ended a call with packets behind it still unread.
C5_Witness ==
  \E j \in ExceptionDecodes :
    /\ Len(log) = j + 1
    /\ pos < Len(stream)
    /\ log[j + 1].err = Exception(60)

\* The reads of a tag that has no case in process or handle.
UnknownReads ==
  {j \in Events("read") : log[j].what = "tag" /\ log[j].val \notin KnownTags}

(***************************************************************************)
(* C6: a tag outside the vocabulary, read by either entry point, ends the  *)
(* call with the "unexpected packet" error of operation "process" that     *)
(* carries that byte.  The byte is not skipped: the call makes no callback *)
(* and reads nothing after it, and while the call has not returned it is   *)
(* on its way into handle with that byte.                                  *)
(***************************************************************************)
C6_UnexpectedPacket ==
  \A j \in UnknownReads :
    LET i == CallOf(j)
        p == log[j].by
        after == {k \in (j + 1)..Len(log) : log[k].call = log[j].call}
    IN IF ReturnOf(i) = 0
         THEN /\ after = {}
              /\ pc[p] \in {"handle_Lock", "handle_switch"}
              /\ packet[p] = log[j].val
         ELSE /\ after = {ReturnOf(i)}
              /\ log[ReturnOf(i)].err.kind = "unexpected packet"
              /\ log[ReturnOf(i)].err.op = "process"
              /\ log[ReturnOf(i)].err.val = log[j].val
              /\ log[ReturnOf(i)].val = -1
              /\ (Len(log) = ReturnOf(i) => pos = log[j].off + 1)

\* firstBlock has ended on the unknown tag 4 with bytes behind it unread.
C6_Witness ==
  \E j \in UnknownReads :
    /\ ReturnOf(CallOf(j)) # 0
    /\ log[ReturnOf(CallOf(j))].err = OpError(4)
    /\ log[CallOf(j)].what = "firstBlock"
    /\ pos < Len(stream)

\* The kinds of the events of log[j]'s call that follow log[j].
KindsAfter(j) ==
  LET rest == SelectSeq(SubSeq(log, j + 1, Len(log)),
                        LAMBDA e : e.call = log[j].call)
  IN [k \in 1..Len(rest) |-> rest[k].ev]

\* What a call does after it has written Cancel.
CancelSteps == <<"flush", "close", "cancel", "return">>

\* A call writes Cancel at most once, only with its context done and after
\* all its reads; what follows is the flush, the close, cancel's return and
\* the call's return of ctx.Err(), with the connection closed.  A call whose
\* context is done when it starts reads nothing.
C7_CancelledCalls ==
  /\ \A i \in Started :
       /\ Cardinality(EventsOf(i, "PutUVarInt")) <= 1
       /\ \A j \in EventsOf(i, "PutUVarInt") :
            /\ log[j].val = ClientCancel
            /\ log[j].ctx \in CtxErrs
            /\ \A k \in EventsOf(i, "read") : k < j
            /\ KindsAfter(j) = SubSeq(CancelSteps, 1, Len(KindsAfter(j)))
            /\ ReturnOf(i) # 0 =>
                 /\ KindsAfter(j) = CancelSteps
                 /\ log[ReturnOf(i)].err = ErrCtx(log[j].ctx)
                 /\ log[ReturnOf(i)].val = -1
                 /\ closed
       /\ log[i].ctx # "live" =>
            /\ EventsOf(i, "read") = {}
            /\ ReturnOf(i) # 0 =>
                 /\ Cardinality(EventsOf(i, "PutUVarInt")) = 1
                 /\ log[ReturnOf(i)].err = ErrCtx(log[i].ctx)
  /\ \A p \in Callers :
       pc[p] \in {"cancel", "cancel_flush", "cancel_close"} => ctx[p] \in CtxErrs

\* A call that polls a context that is done goes into cancel.
C7_PollCancels ==
  \A p \in Callers :
    (pc[p] = "select" /\ ctx[p] # "live") => pc'[p] \in {"select", "cancel"}

(***************************************************************************)
(* C7: a cancellation that is signalled when a call polls its context, at  *)
(* the top of an iteration and before the tag of that iteration is read,   *)
(* makes the call run cancel: it writes exactly one Cancel message and     *)
(* flushes, then closes the connection, and returns ctx.Err() whatever the *)
(* flush and the close returned; it reads no tag after that poll.          *)
(***************************************************************************)
C7_CancelAtPoll == [](C7_CancelledCalls) /\ [][C7_PollCancels]_vars

\* A call that had read a tag was cancelled; the flush and the close both
\* failed and the call returned the context's error.
C7_Witness ==
  \E i \in Started :
    /\ ReturnOf(i) # 0
    /\ EventsOf(i, "read") # {}
    /\ \E j \in EventsOf(i, "flush") : log[j].err # Nil
    /\ \E j \in EventsOf(i, "close") : log[j].err # Nil
    /\ log[ReturnOf(i)].err = ErrCtx("context.DeadlineExceeded")

(***************************************************************************)
(* C8: when cancel's flush or close fails, the failure is surfaced: it is  *)
(* wrapped in the error the call returns, which stays the cancellation     *)
(* reason, or it is logged.  The code does neither: firstBlock and process *)
(* discard what cancel returns.                                            *)
(***************************************************************************)
C8_SecondarySurfaced ==
  \A i \in Started : ReturnOf(i) # 0 =>
    \A j \in EventsOf(i, "flush") \cup EventsOf(i, "close") :
      log[j].err # Nil =>
        /\ log[ReturnOf(i)].err.kind \in CtxErrs
        /\ \/ log[ReturnOf(i)].err.wraps = log[j].err.kind
           \/ \E k \in EventsOf(i, "debugf") : k > j /\ log[k].err = log[j].err

(***************************************************************************)
(* C9: once a call has sent Cancel and returned, every call that is        *)
(* started later on the connection fails: it reads nothing, makes no       *)
(* callback, returns no block and returns a non-nil error, also with a     *)
(* live context and with packets pending.                                  *)
(***************************************************************************)
C9_TerminalAfterCancel ==
  \A i \in Started :
    (\E j \in Events("PutUVarInt") : j < i) =>
      /\ EventsOf(i, "callback") = {}
      /\ EventsOf(i, "read") = {}
      /\ ReturnOf(i) # 0 =>
           /\ log[ReturnOf(i)].err # Nil
           /\ log[ReturnOf(i)].val = -1

\* A call with a live context, on a stream with packets pending, has failed
\* after an earlier call sent Cancel.
C9_Witness ==
  \E i \in Started :
    /\ \E j \in Events("PutUVarInt") : j < i
    /\ ReturnOf(i) # 0
    /\ NeverCancelled(i)
    /\ pos < Len(stream)
    /\ log[ReturnOf(i)].err = ErrClosed

(***************************************************************************)
(* C10: with process calls and cancel running at the same time on one      *)
(* connection, no two reads take the same byte and none is skipped: every  *)
(* offset of the stream is consumed at most once, the offsets consumed are *)
(* exactly those before the reader's position, and no two reads in the     *)
(* history are reads of the same offset.                                   *)
(***************************************************************************)
C10_EachByteOnce ==
  /\ \A o \in DOMAIN reads :
       /\ reads[o] <= 1
       /\ reads[o] = 1 <=> o < pos
  /\ \A j, k \in Events("read") : log[j].off = log[k].off => j = k

\* One call is inside cancel, between its flush and its close, while the
\* other call's read of a tag is in flight, and both calls have read bytes.
C10_Witness ==
  \E p, q \in Callers :
    /\ pc[p] = "cancel_close"
    /\ pc[q] = "process_Unlock"
    /\ \E j, k \in Events("read") : log[j].by = p /\ log[k].by = q

\* Caller p has a read in flight: ReadByte or a decoder has begun and has not
\* returned.
ReadInFlight(p) ==
  \/ pc[p] \in {"firstBlock_switch", "firstBlock_return", "process_Unlock"}
  \/ pc[p] = "handle_switch" /\ handleCase(packet[p]) # "default"

\* The reads in flight that process and handle make: the tag read of
\* process and the decode of a branch of handle that has a decoder.
LockedRead(p) ==
  \/ pc[p] = "process_Unlock"
  \/ pc[p] = "handle_switch" /\ handleCase(packet[p]) # "default"

\* Caller p is between a Lock and its Unlock.
HoldsLock(p) == pc[p] \in {"process_Unlock", "handle_switch"}

(***************************************************************************)
(* C11 as stated: with any callers of firstBlock and process at the same   *)
(* time, at most one read is in flight against the stream.  It fails:      *)
(* firstBlock reads its tag and decodes its Data block with no lock held,  *)
(* so its read runs while another call reads.                              *)
(***************************************************************************)
C11_AsStated == Cardinality({p \in Callers : ReadInFlight(p)}) <= 1

(***************************************************************************)
(* C11 amended: among the reads that take the lock, the tag read of        *)
(* process and the payload decode of handle, at most one is in flight: a   *)
(* caller with such a read in flight holds the lock, and the lock is held  *)
(* only between a Lock and its Unlock in process or handle.  The tag read  *)
(* of firstBlock and its decode of the Data block hold no lock and exclude *)
(* nobody.                                                                 *)
(***************************************************************************)
C11_LockedReadsExclude ==
  /\ Cardinality({p \in Callers : LockedRead(p)}) <= 1
  /\ \A p \in Callers :
       /\ LockedRead(p) => lock = p
       /\ HoldsLock(p) <=> lock = p
       /\ pc[p] \in {"firstBlock_switch", "firstBlock_return"} => lock # p

\* firstBlock, which has read a tag, decodes its Data block while another
\* call, inside handle and holding the lock, decodes a payload.
C11_Witness ==
  \E p, q \in Callers :
    /\ pc[p] = "firstBlock_return"
    /\ pc[q] = "handle_switch"
    /\ LockedRead(q)
    /\ lock = q
    /\ \E j \in Events("read") : log[j].by = p

\* Caller p has read a tag and has not finished handling its packet.
MidPacket(p) ==
  pc[p] \in {"firstBlock_readData", "firstBlock_return", "handle_Lock",
             "handle_switch"}

\* The tag read at log[t] was handled before log[j]: its payload was decoded
\* and, when the packet has a callback to make, the callback was made.
HandledBefore(t, j) ==
  \E d \in Events("read") :
    /\ log[d].call = log[t].call
    /\ log[d].what = "payload"
    /\ log[d].off = log[t].off + 1
    /\ t < d /\ d < j
    /\ (\/ log[t].val \in AuxTags
        \/ /\ log[t].val \in BlockTags
           /\ deliversData(log[d].val, IF log[CallOf(t)].val = 1
                                         THEN AllCallbacks ELSE {}))
         => \E k \in Events("callback") :
              /\ log[k].call = log[t].call
              /\ log[k].off = log[d].off
              /\ d < k /\ k < j

\* Every Cancel a call wrote comes after the handling of every tag the call
\* read, and a call that is inside cancel has no packet in hand.
C12_CancelBetweenPackets ==
  /\ \A j \in Events("PutUVarInt") :
       \A t \in Events("read") :
         (log[t].call = log[j].call /\ log[t].what = "tag")
           => t < j /\ HandledBefore(t, j)
  /\ \A p \in Callers :
       pc[p] \in {"cancel", "cancel_flush", "cancel_close"}
         => packet[p] = -1 /\ roff[p] = -1

\* A call with a packet in hand does not enter cancel, and the step that
\* follows leaves the write side and the connection's open state alone.
C12_NotMidPacket ==
  \A p \in Callers :
    MidPacket(p) =>
      /\ pc'[p] \notin {"cancel", "cancel_flush", "cancel_close"}
      /\ closed' = closed
      /\ buffer' = buffer
      /\ wire' = wire

(***************************************************************************)
(* C12: within one call, cancellation is acted on only at the top of an    *)
(* iteration.  Between the read of a tag and the end of the handling of    *)
(* its packet the call does not write Cancel and does not close the        *)
(* connection; a packet whose tag was read has been decoded and dispatched *)
(* (or has ended the call by itself) before the call writes Cancel.        *)
(***************************************************************************)
C12_CancelOnlyAtTop == [](C12_CancelBetweenPackets) /\ [][C12_NotMidPacket]_vars

\* The context was done when a call read a tag; the call made the packet's
\* callback and wrote Cancel only then.
C12_Witness ==
  \E j \in Events("PutUVarInt") :
    \E t \in Events("read") :
      /\ log[t].call = log[j].call
      /\ log[t].what = "tag"
      /\ log[t].ctx \in CtxErrs
      /\ \E k \in Events("callback") :
           log[k].call = log[j].call /\ t < k /\ k < j

\* The callback slot of the packet with tag t.
SlotOf(t) == IF t \in BlockTags THEN "data" ELSE AuxCallback(t)

\* The events of the call that started at log[i] are in stream order: its
\* reads take the bytes from its start on, one after the other, every
\* callback is made with the payload of a tag the call read, for the slot of
\* that tag, and the callbacks follow each other as their packets do.
InStreamOrder(i) ==
  /\ \A k \in 1..Len(OffsetsRead(i)) : OffsetsRead(i)[k] = log[i].off + k - 1
  /\ \A k \in EventsOf(i, "callback") :
       /\ \E t, d \in EventsOf(i, "read") :
            /\ log[t].what = "tag" /\ log[d].what = "payload"
            /\ log[t].off = log[k].off - 1 /\ log[d].off = log[k].off
            /\ t < d /\ d < k
            /\ log[t].val = stream[log[k].off]
            /\ log[k].val = stream[log[k].off + 1]
            /\ log[k].what = SlotOf(log[t].val)
       /\ \A m \in EventsOf(i, "callback") :
            k < m <=> log[k].off < log[m].off

\* The call that started at log[i] never reads ahead: when it reads a tag,
\* every packet whose tag it read before is decoded and its callback made.
NeverAhead(i) ==
  \A t, u \in EventsOf(i, "read") :
    (log[t].what = "tag" /\ log[u].what = "tag" /\ t < u) => HandledBefore(t, u)

(***************************************************************************)
(* C13: within one call, packets are processed in the order the server     *)
(* wrote them and never ahead.  The call reads the bytes of the stream one *)
(* after the other from where it started, its callbacks are those of the   *)
(* packets it dispatched, in stream order, and it reads the tag of the     *)
(* next packet only after the payload decode and the callback of the       *)
(* packet before; the reader never stands beyond the last byte handed out. *)
(***************************************************************************)
C13_InOrderNeverAhead ==
  /\ \A i \in Started :
       /\ InStreamOrder(i)
       /\ NeverAhead(i)
       /\ \A d \in EventsOf(i, "read") :
            log[d].what = "payload" =>
              LET made == {k \in EventsOf(i, "callback") : log[k].off = log[d].off}
              IN /\ Cardinality(made) <= 1
                 /\ stream[log[d].off] \in AuxTags => Cardinality(made) = 1
  /\ \A j \in Events("read") : log[j].off < pos

\* A process call has made the callbacks of two different packets, one
\* after the other, and has read on behind them.
C13_Witness ==
  \E i \in Started :
    /\ log[i].what = "process"
    /\ Len(Callbacks(i)) = 2
    /\ Callbacks(i)[1][1] # Callbacks(i)[2][1]
    /\ Len(TagsRead(i)) = 3

(***************************************************************************)
(* C14 as stated: a zero-row block is forwarded by neither entry point: it *)
(* does not reach the data callback and firstBlock does not return it.  It *)
(* fails: firstBlock returns the Data block it reads whatever its rows.    *)
(***************************************************************************)
C14_AsStated ==
  /\ \A k \in Events("callback") : log[k].what = "data" => log[k].val # 0
  /\ \A j \in Events("return") : log[j].what = "firstBlock" => log[j].val # 0

(***************************************************************************)
(* C14 amended: a zero-row block never reaches the data callback, from     *)
(* either entry point: handle decodes it, drops it and the call goes on.   *)
(* A zero-row Data packet that firstBlock reads is decoded and returned to *)
(* the caller as the first block, with a nil error, and ends the call.     *)
(***************************************************************************)
C14_ZeroRowBlocks ==
  /\ \A k \in Events("callback") : log[k].what = "data" => log[k].val # 0
  /\ \A j \in BlockDecodes : log[j].val = 0 =>
       /\ DataCallbacks(j) = {}
       /\ IF DecodedByHandle(j)
            THEN \A r \in Events("return") : log[r].off # log[j].off
            ELSE /\ ReturnOf(CallOf(j)) = j + 1
                 /\ log[j + 1].val = 0
                 /\ log[j + 1].off = log[j].off
                 /\ log[j + 1].err = Nil

\* firstBlock has dropped a zero-row Totals block in handle and has then
\* returned a zero-row Data block to its caller.
C14_Witness ==
  \E j, z \in BlockDecodes :
    /\ log[j].call = log[z].call
    /\ log[z].val = 0 /\ DecodedByHandle(z)
    /\ log[j].val = 0 /\ ~DecodedByHandle(j)
    /\ ReturnOf(CallOf(j)) = j + 1
    /\ log[j + 1].val = 0

\* The offsets at which the packets of the stream start.
RECURSIVE PacketStarts(_)
PacketStarts(off) ==
  IF off >= Len(stream) THEN {}
  ELSE {off} \cup PacketStarts(IF stream[off + 1] \in DecodedTags THEN off + 2
                                ELSE off + 1)

\* The last tag caller p's current call read: the event's index in log.
LastTagRead(p) ==
  LET ts == {t \in Events("read") :
               /\ log[t].by = p /\ log[t].call = callId[p] /\ log[t].what = "tag"}
  IN CHOOSE t \in ts : \A u \in ts : u <= t

(***************************************************************************)
(* C15: with two process calls at the same time, a packet is handled       *)
(* atomically.  Between a call's read of a tag and the end of the decode   *)
(* of the payload no other call reads: the payload is read right behind    *)
(* its tag, by the call that read the tag, and no byte of a payload is     *)
(* read as a tag.  The code does not keep it: process unlocks after the    *)
(* tag read and handle locks again, and another call reads in between.     *)
(***************************************************************************)
C15_PacketAtomic ==
  /\ \A p \in Callers :
       pc[p] \in {"handle_Lock", "handle_switch"} =>
         /\ pos = log[LastTagRead(p)].off + 1
         /\ (pc[p] = "handle_switch" /\ handleCase(packet[p]) # "default")
              => roff[p] = log[LastTagRead(p)].off + 1
  /\ \A d \in Events("read") :
       log[d].what = "payload" =>
         \E t \in Events("read") :
           /\ log[t].call = log[d].call
           /\ log[t].what = "tag"
           /\ log[t].off = log[d].off - 1
  /\ \A t \in Events("read") :
       log[t].what = "tag" => log[t].off \in PacketStarts(0)

\* The steps of cancel that end at log[j], cancel's return: j - 3 is the
\* write of Cancel, j - 2 the flush, j - 1 the close.
CancelRuns == Events("cancel")

(***************************************************************************)
(* C16: cancel writes the Cancel tag and flushes, then closes the          *)
(* connection in every case, also when the flush failed.  It returns the   *)
(* close error whenever the close failed, the flush error when the close   *)
(* succeeded and the flush failed, and nil only when both succeeded.       *)
(***************************************************************************)
C16_CancelSteps ==
  /\ \A j \in CancelRuns :
       /\ j > 4
       /\ \A k \in (j - 4)..j : log[k].call = log[j].call
       /\ log[j - 4] = debugf(log[j].by, "[cancel]")
       /\ log[j - 3].ev = "PutUVarInt" /\ log[j - 3].val = ClientCancel
       /\ log[j - 2].ev = "flush"
       /\ log[j - 1].ev = "close"
       /\ closed
       /\ log[j].err = IF log[j - 1].err # Nil THEN log[j - 1].err
                       ELSE log[j - 2].err
       /\ log[j].err = Nil <=> (log[j - 1].err = Nil /\ log[j - 2].err = Nil)
  /\ \A p \in Callers :
       pc[p] = "cancel_flush" =>
         /\ log[Len(log)].ev = "PutUVarInt" /\ log[Len(log)].call = callId[p]
         /\ buffer # <<>> /\ buffer[Len(buffer)] = ClientCancel
  /\ \A f \in Events("flush") :
       /\ log[f - 1].ev = "PutUVarInt"
       /\ IF pc[log[f].by] = "cancel_close" /\ log[f].call = callId[log[f].by]
            THEN wErr[log[f].by] = log[f].err
            ELSE f + 2 \in CancelRuns
       /\ log[f].err = Nil =>
            Len(wire) > 0 /\ wire[Len(wire)] = ClientCancel /\ buffer = <<>>

\* cancel has returned the flush error after a close that succeeded.
C16_Witness ==
  \E j \in CancelRuns :
    /\ log[j - 2].err # Nil
    /\ log[j - 1].err = Nil
    /\ log[j].err = log[j - 2].err
    /\ closed

\* The tags the call that started at log[i] read with its context done: the
\* signal had fired when the read returned.
TagsAfterSignal(i) ==
  {t \in EventsOf(i, "read") : log[t].what = "tag" /\ log[t].ctx \in CtxErrs}

\* Where a call is while it reads a tag.
ReadingTag(p) ==
  pc[p] \in {"firstBlock_ReadByte", "firstBlock_switch", "process_Lock",
             "process_Unlock"}

\* A call reads at most one tag after the signal and no tag behind that one.
\* When it has returned with the signal fired, it has written Cancel once and
\* returned the context's error, unless its last iteration ended the call
\* first, and then it wrote no Cancel.
C17_OneMorePacket ==
  /\ \A i \in Started :
       /\ Cardinality(TagsAfterSignal(i)) <= 1
       /\ \A t \in TagsAfterSignal(i) :
            /\ \A u \in EventsOf(i, "read") : log[u].what = "tag" => u <= t
            /\ \A u \in EventsOf(i, "read") : u > t => log[u].off = log[t].off + 1
            /\ \A u \in EventsOf(i, "callback") : u > t => log[u].off = log[t].off + 1
            /\ (ReturnOf(i) = 0 /\ callId[log[i].by] = log[i].call)
                 => ~ReadingTag(log[i].by)
       /\ (ReturnOf(i) # 0 /\ log[ReturnOf(i)].ctx \in CtxErrs) =>
            IF EventsOf(i, "PutUVarInt") = {}
              THEN log[ReturnOf(i)].err.kind \notin CtxErrs
              ELSE /\ Cardinality(EventsOf(i, "PutUVarInt")) = 1
                   /\ log[ReturnOf(i)].err = ErrCtx(log[ReturnOf(i)].ctx)
                   /\ \A t \in EventsOf(i, "read") :
                        \A j \in EventsOf(i, "PutUVarInt") : t < j

\* A call whose context is done begins no read of a tag: it is in a read
\* only when it was past its poll before the step.
C17_NoSecondRead ==
  \A p \in Callers :
    (ctx[p] \in CtxErrs /\ ReadingTag(p)') => (ReadingTag(p) /\ pc[p] # "select")

(***************************************************************************)
(* C17: once the signal has fired during a call, the call reads at most    *)
(* one more tag, the one of the iteration that is past its poll, and       *)
(* handles at most that packet; then, unless that packet ended the call,   *)
(* it writes Cancel and returns the cancellation reason.  It starts no     *)
(* read of a second iteration after the signal.                            *)
(***************************************************************************)
C17_AtMostOneMorePacket == [](C17_OneMorePacket) /\ [][C17_NoSecondRead]_vars

\* The signal fired after a call's poll; the call read one more tag, made
\* that packet's callback, wrote Cancel and returned the reason.
C17_Witness ==
  \E i \in Started :
    /\ ReturnOf(i) # 0
    /\ log[i].ctx = "live"
    /\ \E t \in TagsAfterSignal(i) :
         \E k \in EventsOf(i, "callback") : log[k].off = log[t].off + 1
    /\ log[ReturnOf(i)].err = ErrCtx("context.Canceled")

\* The returns of calls that ended inside handle: the event before the
\* return is the call's read of a tag that handle is given, or the read of
\* an exception's payload.
HandleReturns ==
  {r \in Events("return") :
     /\ r > 1
     /\ log[r - 1].ev = "read"
     /\ log[r - 1].call = log[r].call
     /\ \/ log[r - 1].what = "tag" /\ log[r - 1].val # ServerEndOfStream
        \/ log[r - 1].what = "payload" /\ log[r].val = -1}

\* A caller that is in no call does not hold the lock, the lock is free when
\* no call is in progress, and it is held only by a call that is inside the
\* locked tag read of process or inside handle.
C18_LockFreeOutsideCalls ==
  /\ \A p \in Callers : pc[p] = "idle" => lock # p
  /\ AllIdle => lock = 0
  /\ lock # 0 => pc[lock] \in {"process_Unlock", "handle_switch"}

\* The step in which a call returns leaves the call without the lock.
C18_ReturnUnlocks ==
  \A p \in Callers : (pc[p] # "idle" /\ pc'[p] = "idle") => lock' # p

(***************************************************************************)
(* C18: the lock is released on every exit path.  When a call of           *)
(* firstBlock or process, or handle inside it, returns (a block, the end   *)
(* of the stream, an error of the tag read or of a decode, an exception,   *)
(* an unknown tag, a cancellation), the call does not hold the lock; the   *)
(* lock is free whenever no call is in progress.                           *)
(***************************************************************************)
C18_LockReleased == [](C18_LockFreeOutsideCalls) /\ [][C18_ReturnUnlocks]_vars

\* A call has ended inside handle on the error of a decode whose payload
\* never arrived, and the lock is free.
C18_Witness ==
  \E r \in HandleReturns :
    /\ log[r - 1].val = ServerLog
    /\ log[r].err = ErrTransport
    /\ AllIdle
    /\ lock = 0

\* Caller p waits in c.rwLock.Lock().
Waiting(p) == pc[p] \in {"process_Lock", "handle_Lock"}

\* No call waits for the lock it holds, and whoever holds the lock is in a
\* read that ends by itself: in no state do the calls wait for each other.
C19_NoSelfAcquire ==
  /\ \A p \in Callers : Waiting(p) => lock # p
  /\ (\E p \in Callers : Waiting(p)) =>
       \/ lock = 0
       \/ pc[lock] \in {"process_Unlock", "handle_switch"}
  /\ \A p \in Callers :
       pc[p] = "handle_Lock" =>
         \E t \in Events("read") :
           /\ log[t].call = callId[p]
           /\ log[t].what = "tag"
           /\ log[t].val = packet[p]
  /\ \A p \in Callers : entry[p] = "firstBlock" /\ pc[p] # "handle_switch" => lock # p

(***************************************************************************)
(* C19: no call tries to take the lock while it holds it: process has      *)
(* released the lock of its tag read when it calls handle, and firstBlock  *)
(* holds no lock when it calls handle.  With process calls running at the  *)
(* same time the calls never wait for each other, and every call that      *)
(* waits for the lock gets it in the end.                                  *)
(***************************************************************************)
C19_LockProgress ==
  /\ [](C19_NoSelfAcquire)
  /\ \A p \in Callers : Waiting(p) ~> HoldsLock(p)

\* Both calls wait for the lock at once: one in process, which has handled a
\* packet, and one in handle, which holds a tag.
C19_Witness ==
  \E p, q \in Callers :
    /\ pc[p] = "process_Lock"
    /\ pc[q] = "handle_Lock"
    /\ lock = 0
    /\ \E k \in Events("callback") : log[k].by = p /\ log[k].call = callId[p]

\* The events of cancel: what a call writes to the connection or does to it.
WriteKinds == {"PutUVarInt", "flush", "close", "cancel"}

\* Cancel is written only by a call whose context is done and which returns
\* the context's error; a call that ends any other way has written nothing
\* and closed nothing, and while no call has written Cancel the connection
\* is open and its write side untouched.
C20_WritesOnlyInCancel ==
  /\ \A j \in Events("PutUVarInt") :
       log[j].ctx \in CtxErrs \/ log[j].ctx = ""
  /\ \A i \in Started :
       /\ (/\ log[i].ctx = "live"
           /\ IF ReturnOf(i) # 0 THEN log[ReturnOf(i)].ctx = "live"
              ELSE ctx[log[i].by] = "live")
            => \A k \in WriteKinds : EventsOf(i, k) = {}
       /\ (ReturnOf(i) # 0 /\ log[ReturnOf(i)].err.kind \notin CtxErrs)
            => \A k \in WriteKinds : EventsOf(i, k) = {}
  /\ Events("PutUVarInt") = {} => ~closed /\ wire = <<>> /\ buffer = <<>>

\* A step of a call that is not inside cancel leaves the connection's write
\* side and its open or closed state as they are.
C20_OtherStepsFrame ==
  (\A p \in Callers : pc[p] \notin {"cancel", "cancel_flush", "cancel_close"})
    => closed' = closed /\ wire' = wire /\ buffer' = buffer

(***************************************************************************)
(* C20: the processor writes to the connection and closes it only in the   *)
(* cancellation path.  A call that ends by the end of the stream, by a     *)
(* returned block, by an exception, by an unknown tag or by an error of a  *)
(* read or decode has sent no Cancel and has not closed the connection:    *)
(* the open or closed state and the write side are as they were.           *)
(***************************************************************************)
C20_CancelPathOnly == [](C20_WritesOnlyInCancel) /\ [][C20_OtherStepsFrame]_vars

\* firstBlock has returned a block and the process call after it has ended
\* on an exception; the connection is open and nothing was written.
C20_Witness ==
  \E j \in ExceptionDecodes :
    /\ ReturnOf(CallOf(j)) = j + 1
    /\ \E r \in Events("return") :
         r < j /\ log[r].what = "firstBlock" /\ log[r].val = 3
    /\ ~closed
    /\ wire = <<>>
    /\ buffer = <<>>

====
